---- MODULE Spec2Model ----
(***************************************************************************)
(* Model of Iec6205621Client (src/iec62056_21/client_.py), the client side *)
(* of the IEC 62056-21 mode C readout protocol.                            *)
(*                                                                         *)
(* The client is synchronous: every public method runs to completion (or   *)
(* to the exception that ends it) before the next one starts.  A method is *)
(* an operator on a "machine" record m holding the client's fields, the    *)
(* transport, the frames the meter will answer with (wire), the log of the *)
(* calls made on the collaborators during this call (trace), the pending   *)
(* exception (exc) and the returned value (ret).  Once exc is set, every   *)
(* later step of the method is skipped, as a Python exception does.        *)
(*                                                                         *)
(* The bridge of src/examples/main.py (MyClass) runs calls concurrently;   *)
(* each call is a process whose position is kept in bridge.                *)
(*                                                                         *)
(* Text is a sequence of one-character strings; control bytes are named    *)
(* ("NUL", "SOH", "STX", "ETX", "ACK", "NAK", "CR", "LF").  Durations are  *)
(* in milliseconds.                                                        *)
(***************************************************************************)
EXTENDS Integers, Sequences, FiniteSets, TLC

VARIABLES
    client,     \* the fields of the Iec6205621Client object
    transport,  \* the transport collaborator's state
    trace,      \* collaborator calls made by the most recent method call
    outcome,    \* the most recent method call: name, exception, return value
    input,      \* the argument handed to a pure function (pure-function specs)
    life,       \* what has happened to the session so far (history)
    bridge      \* MyClass: the shared lock and the position of every call

vars == <<client, transport, trace, outcome, input, life, bridge>>

None == "None"

(***************************************************************************)
(* Class constants.                                                        *)
(***************************************************************************)
BaudChars == {"0", "1", "2", "3", "4", "5", "6"}

BAUDRATES_MODE_C ==
    [c \in BaudChars |->
        CASE c = "0" -> 300
          [] c = "1" -> 600
          [] c = "2" -> 1200
          [] c = "3" -> 2400
          [] c = "4" -> 4800
          [] c = "5" -> 9600
          [] c = "6" -> 19200]

ALLOWED_MODES ==
    {"readout", "programming", "binary",
     "manufacturer6", "manufacturer7", "manufacturer8", "manufacturer9"}

MODE_CONTROL_CHARACTER ==
    [mode \in ALLOWED_MODES |->
        CASE mode = "readout" -> "0"
          [] mode = "programming" -> "1"
          [] mode = "binary" -> "2"
          [] mode = "manufacturer6" -> "6"
          [] mode = "manufacturer7" -> "7"
          [] mode = "manufacturer8" -> "8"
          [] mode = "manufacturer9" -> "9"]

SHORT_REACTION_TIME == 20
REACTION_TIME == 200

(***************************************************************************)
(* Python's str.islower() on one character, and the characters used.       *)
(***************************************************************************)
LowerChars == {"i", "s", "k", "x"}

islower(c) == c \in LowerChars

(***************************************************************************)
(* The machine a method runs on.                                           *)
(***************************************************************************)
Machine(wire, step) ==
    [client |-> client, transport |-> transport, wire |-> wire,
     clockStep |-> step, link |-> TRUE, trace |-> <<>>, exc |-> None,
     msg |-> None, ret |-> None]

\* the machine of a connect: link tells whether the physical link comes up
LinkMachine(link) == [Machine(<<>>, 0) EXCEPT !.link = link]

RaiseMsg(m, e, msg) == [m EXCEPT !.exc = e, !.msg = msg]

Raise(m, e) == RaiseMsg(m, e, None)

Return(m, v) == [m EXCEPT !.ret = v]

\* One call on a collaborator: its name, its argument or result, and whether
\* it came back (ok) or ended in the collaborator's own error.
Event(ev, arg, ok) == [ev |-> ev, arg |-> arg, ok |-> ok]

Emit(m, ev, arg) == [m EXCEPT !.trace = Append(@, Event(ev, arg, TRUE))]

EmitFailed(m, ev) == [m EXCEPT !.trace = Append(@, Event(ev, None, FALSE))]

(***************************************************************************)
(* The transport collaborator (section 6 of the specification): connect,   *)
(* disconnect, send, read, simple_read, recv and switch_baudrate.  A read  *)
(* with nothing left on the wire is the transport's read timeout.  What a  *)
(* transport does with a call made while its link is released is not       *)
(* specified: a transport either lets it through or ends it in its error   *)
(* (raises_when_closed).                                                   *)
(***************************************************************************)
Transport(requires_address, raises_when_closed, connected) ==
    [baudrate |-> 300, connected |-> connected,
     TRANSPORT_REQUIRES_ADDRESS |-> requires_address,
     raises_when_closed |-> raises_when_closed]

LinkUsable(m) == m.transport.connected \/ ~m.transport.raises_when_closed

\* link: whether the physical link can be established
transport_connect(m, link) ==
    IF m.exc # None THEN m
    ELSE IF ~link THEN Raise(EmitFailed(m, "connect"), "TransportError")
    ELSE [Emit(m, "connect", None) EXCEPT !.transport.connected = TRUE]

transport_disconnect(m) ==
    IF m.exc # None THEN m
    ELSE [Emit(m, "disconnect", None) EXCEPT !.transport.connected = FALSE]

transport_send(m, bytes) ==
    IF m.exc # None THEN m
    ELSE IF ~LinkUsable(m) THEN Raise(EmitFailed(m, "send"), "TransportError")
    ELSE Emit(m, "send", bytes)

TransportTake(m, ev) ==
    IF m.exc # None THEN m
    ELSE IF ~LinkUsable(m) \/ m.wire = <<>>
         THEN Raise(EmitFailed(m, ev), "TransportError")
    ELSE Return([Emit(m, ev, Head(m.wire)) EXCEPT !.wire = Tail(@)], Head(m.wire))

transport_simple_read(m) == TransportTake(m, "simple_read")

transport_read(m) == TransportTake(m, "read")

transport_recv(m) == TransportTake(m, "recv")

transport_switch_baudrate(m, baud) ==
    IF m.exc # None THEN m
    ELSE IF ~LinkUsable(m)
         THEN Raise(EmitFailed(m, "switch_baudrate"), "TransportError")
    ELSE [Emit(m, "switch_baudrate", baud) EXCEPT !.transport.baudrate = baud]

(***************************************************************************)
(* Timing: reaction_time and rest.  rest(duration=None) sleeps for         *)
(* duration or (reaction_time * 1.25); a duration of 0 stands for the      *)
(* falsy values None and 0.                                                *)
(***************************************************************************)
reaction_time(c) ==
    IF c.use_short_reaction_time THEN SHORT_REACTION_TIME ELSE REACTION_TIME

rest(m, duration) ==
    IF m.exc # None THEN m
    ELSE LET _duration == IF duration # 0 THEN duration
                          ELSE (reaction_time(m.client) * 125) \div 100
         IN  Emit(m, "rest", _duration)

(***************************************************************************)
(* Message codec (iec62056_21.messages).  An identification frame is text: *)
(* "/", three characters of manufacturer code, the switchover baud         *)
(* character, the identification, CR LF.  A data frame is a record: its    *)
(* first byte (start), the command characters after SOH (head), its data   *)
(* sets (data) and whether its block check character matches (bcc_ok).     *)
(***************************************************************************)
\* raw bytes handed to transport.send
Bytes(data) == [kind |-> "bytes", data |-> data]

RequestMessage(device_address) ==
    [kind |-> "RequestMessage", device_address |-> device_address]

AckOptionSelectMessage(mode_char, baud_char) ==
    [kind |-> "AckOptionSelectMessage", mode_char |-> mode_char,
     baud_char |-> baud_char]

\* data_set is optional: <<>> for None, <<d>> for the data set d
CommandMessage(command, command_type, data_set) ==
    [kind |-> "CommandMessage", command |-> command,
     command_type |-> command_type, data_set |-> data_set]

DataSet(address, value) == [address |-> address, value |-> value]

IdentificationWellFormed(data) ==
    /\ Len(data) >= 8
    /\ data[1] = "/"
    /\ data[Len(data) - 1] = "CR"
    /\ data[Len(data)] = "LF"

IdentificationMessage_from_bytes(m) ==
    IF m.exc # None THEN m
    ELSE LET data == m.ret
         IN  IF ~IdentificationWellFormed(data) THEN Raise(m, "ValueError")
             ELSE Return(m, [kind |-> "IdentificationMessage",
                             manufacturer |-> SubSeq(data, 2, 4),
                             switchover_baudrate_char |-> data[5],
                             identification |-> SubSeq(data, 6, Len(data) - 2)])

CommandMessage_from_bytes(m) ==
    IF m.exc # None THEN m
    ELSE LET data == m.ret
             m1 == Emit(m, "decode", "CommandMessage")
         IN  IF Len(data.head) # 2 THEN Raise(m1, "ValueError")
             ELSE Return(m1, [kind |-> "CommandMessage",
                              command |-> data.head[1],
                              command_type |-> data.head[2],
                              data_set |-> data.data,
                              bcc_ok |-> data.bcc_ok])

AnswerDataMessage_from_bytes(m) ==
    IF m.exc # None THEN m
    ELSE LET data == m.ret
             m1 == Emit(m, "decode", "AnswerDataMessage")
         IN  IF data.start # "STX" THEN Raise(m1, "ValueError")
             ELSE Return(m1, [kind |-> "AnswerDataMessage",
                              data |-> data.data,
                              bcc_ok |-> data.bcc_ok])

\* response.to_bytes(): the frame the message encodes to, block check included.
to_bytes(msg) ==
    IF msg.kind = "CommandMessage"
    THEN [start |-> "SOH", head |-> <<msg.command, msg.command_type>>,
          data |-> msg.data_set, bcc_ok |-> msg.bcc_ok]
    ELSE [start |-> "STX", head |-> <<>>, data |-> msg.data,
          bcc_ok |-> msg.bcc_ok]

\* utils.bcc_valid(bytes)
bcc_valid(bytes) == bytes.bcc_ok

\* error_parser.check_for_errors(response) of the default DummyErrorParser
check_for_errors(m, response) ==
    IF m.exc # None THEN m ELSE Emit(m, "check_for_errors", response)

(***************************************************************************)
(* Session engine.                                                         *)
(***************************************************************************)
DefaultPassword == <<"0", "0", "0", "0", "0", "0", "0", "0">>

\* __init__ presetting the switchover character to the 300 baud code
Object_preset_baud_char(device_address, password, battery_powered) ==
    [device_address |-> device_address,
     password |-> password,
     battery_powered |-> battery_powered,
     identification |-> None,
     switchover_baudrate_char |-> "0",
     manufacturer_id |-> None,
     use_short_reaction_time |-> FALSE,
     current_baudrate |-> 300]

\* the fields __init__ assigns
Object(device_address, password, battery_powered) ==
    [device_address |-> device_address,
     password |-> password,
     battery_powered |-> battery_powered,
     identification |-> None,
     switchover_baudrate_char |-> None,
     manufacturer_id |-> None,
     use_short_reaction_time |-> FALSE,
     current_baudrate |-> 300]

\* __init__ accepting an empty device address for every transport
__init___unchecked(m, transport_, device_address, password, battery_powered) ==
    [m EXCEPT !.transport = transport_,
              !.client = Object(device_address, password, battery_powered)]

__init__(m, transport_, device_address, password, battery_powered) ==
    LET m1 == [m EXCEPT
                 !.transport = transport_,
                 !.client = Object(device_address, password, battery_powered)]
    IN  IF transport_.TRANSPORT_REQUIRES_ADDRESS /\ device_address = <<>>
        THEN RaiseMsg(m1, "Iec6205621ClientError",
                      "The transported used requires a device address and none was supplied.")
        ELSE m1

connect(m) == transport_connect(m, m.link)

\* disconnect clearing what the identification left in the client
disconnect_reset(m) ==
    [transport_disconnect(m) EXCEPT
        !.client.switchover_baudrate_char = None,
        !.client.use_short_reaction_time = FALSE]

disconnect(m) == transport_disconnect(m)

WAKE_TIMEOUT == 2200
WAKE_REST == 200
WAKE_SETTLE == 1500

\* time.time() - start_time: the clock is read and shows elapsed
time_elapsed(m, elapsed) ==
    IF m.exc # None THEN m ELSE Emit(m, "time", elapsed)

\* the body of `while duration < timeout`, entered with duration < timeout;
\* every pass takes clockStep on the clock
RECURSIVE WakeLoop(_, _)
WakeLoop(m, duration) ==
    IF m.exc # None THEN m
    ELSE LET d  == duration + m.clockStep
             m1 == time_elapsed(
                     rest(transport_send(m, Bytes(<<"NUL">>)), WAKE_REST), d)
         IN  IF d < WAKE_TIMEOUT THEN WakeLoop(m1, d) ELSE m1

\* the wake sequence without the wait after the last null byte
send_battery_power_startup_sequence_no_settle(m) ==
    IF m.exc # None THEN m
    ELSE WakeLoop(time_elapsed(m, 0), 0)

send_battery_power_startup_sequence(m) ==
    IF m.exc # None THEN m
    ELSE rest(WakeLoop(time_elapsed(m, 0), 0), WAKE_SETTLE)

\* send_init_request with the wait after the send left out
send_init_request_no_rest(m) ==
    IF m.exc # None THEN m
    ELSE transport_send(m, RequestMessage(m.client.device_address))

send_init_request(m) ==
    IF m.exc # None THEN m
    ELSE rest(transport_send(m, RequestMessage(m.client.device_address)), 0)

read_identification(m) ==
    IF m.exc # None THEN m
    ELSE IdentificationMessage_from_bytes(transport_simple_read(m))

startup(m) ==
    IF m.exc # None THEN m
    ELSE LET m1 == IF m.client.battery_powered
                   THEN send_battery_power_startup_sequence(m) ELSE m
             m2 == read_identification(send_init_request(m1))
             ident_msg == m2.ret
         IN  IF m2.exc # None THEN m2
             ELSE Return(
                 [m2 EXCEPT
                    !.client.switchover_baudrate_char =
                        ident_msg.switchover_baudrate_char,
                    !.client.identification = ident_msg.identification,
                    !.client.manufacturer_id = ident_msg.manufacturer,
                    !.client.use_short_reaction_time =
                        IF islower(ident_msg.manufacturer[3]) THEN TRUE ELSE @],
                 None)

\* ack_with_option_select falling back to the readout character for a mode
\* that is not in the table
ack_with_option_select_default_mode(m, mode) ==
    IF m.exc # None THEN m
    ELSE LET mode_char == IF mode \in DOMAIN MODE_CONTROL_CHARACTER
                          THEN MODE_CONTROL_CHARACTER[mode] ELSE "0"
             baud_char == m.client.switchover_baudrate_char
             ack_message == AckOptionSelectMessage(mode_char, baud_char)
             m1 == rest(transport_send(m, ack_message), 0)
         IN  IF baud_char \notin DOMAIN BAUDRATES_MODE_C
             THEN Raise(m1, "KeyError")
             ELSE transport_switch_baudrate(m1, BAUDRATES_MODE_C[baud_char])

\* ack_with_option_select switching the baud rate before the acknowledgement
\* has been sent
ack_with_option_select_switch_first(m, mode) ==
    IF m.exc # None THEN m
    ELSE IF mode \notin DOMAIN MODE_CONTROL_CHARACTER THEN Raise(m, "KeyError")
    ELSE LET mode_char == MODE_CONTROL_CHARACTER[mode]
             baud_char == m.client.switchover_baudrate_char
             ack_message == AckOptionSelectMessage(mode_char, baud_char)
         IN  IF baud_char \notin DOMAIN BAUDRATES_MODE_C
             THEN Raise(m, "KeyError")
             ELSE rest(transport_send(
                         transport_switch_baudrate(m, BAUDRATES_MODE_C[baud_char]),
                         ack_message), 0)

ack_with_option_select(m, mode) ==
    IF m.exc # None THEN m
    ELSE IF mode \notin DOMAIN MODE_CONTROL_CHARACTER THEN Raise(m, "KeyError")
    ELSE LET mode_char == MODE_CONTROL_CHARACTER[mode]
             baud_char == m.client.switchover_baudrate_char
             ack_message == AckOptionSelectMessage(mode_char, baud_char)
             m1 == rest(transport_send(m, ack_message), 0)
         IN  IF baud_char \notin DOMAIN BAUDRATES_MODE_C
             THEN Raise(m1, "KeyError")
             ELSE transport_switch_baudrate(m1, BAUDRATES_MODE_C[baud_char])

\* read_response returning the answer without handing it to the error parser
read_response_unchecked(m) ==
    IF m.exc # None THEN m
    ELSE LET m1 == transport_read(m)
             data == m1.ret
         IN  IF m1.exc # None THEN m1
             ELSE IF data.start = "SOH" THEN CommandMessage_from_bytes(m1)
             ELSE AnswerDataMessage_from_bytes(m1)

read_response(m) ==
    IF m.exc # None THEN m
    ELSE LET m1 == transport_read(m)
             data == m1.ret
         IN  IF m1.exc # None THEN m1
             ELSE IF data.start = "SOH" THEN CommandMessage_from_bytes(m1)
             ELSE LET m2 == AnswerDataMessage_from_bytes(m1)
                      response == m2.ret
                  IN  IF m2.exc # None THEN m2
                      ELSE Return(check_for_errors(m2, response), response)

standard_readout(m) ==
    read_response(ack_with_option_select(startup(m), "readout"))

access_programming_mode(m) ==
    read_response(ack_with_option_select(startup(m), "programming"))

\* The switchover_baudrate property: dict.get, None for an unknown key.
switchover_baudrate(m) ==
    LET c == m.client.switchover_baudrate_char
    IN  Return(m, IF c \in DOMAIN BAUDRATES_MODE_C
                  THEN BAUDRATES_MODE_C[c] ELSE None)

HasData(response) == "data" \in DOMAIN response

\* messages.CommandMessage.for_single_read / for_single_write
for_single_read(address, additional_data) ==
    CommandMessage("R", "1", <<DataSet(address, additional_data)>>)

for_single_write(address, data) ==
    CommandMessage("W", "1", <<DataSet(address, data)>>)

\* read_single_value with the first comparison off by one
read_single_value_off_by_one(m, address, additional_data) ==
    LET request == for_single_read(address, additional_data)
        m1 == read_response(transport_send(m, request))
        response == m1.ret
    IN  IF m1.exc # None THEN m1
        ELSE IF ~HasData(response) THEN Raise(m1, "AttributeError")
        ELSE IF Len(response.data) >= 1
             THEN RaiseMsg(m1, "TooManyValuesReturned", "Read of one value returned more")
        ELSE IF Len(response.data) = 0
             THEN RaiseMsg(m1, "NoDataReturned", "Read returned no data")
        ELSE Return(m1, response.data[1])

read_single_value(m, address, additional_data) ==
    LET request == for_single_read(address, additional_data)
        m1 == read_response(transport_send(m, request))
        response == m1.ret
    IN  IF m1.exc # None THEN m1
        ELSE IF ~HasData(response) THEN Raise(m1, "AttributeError")
        ELSE IF Len(response.data) > 1
             THEN RaiseMsg(m1, "TooManyValuesReturned", "Read of one value returned more")
        ELSE IF Len(response.data) = 0
             THEN RaiseMsg(m1, "NoDataReturned", "Read returned no data")
        ELSE Return(m1, response.data[1])

_recv_ack(m) == transport_recv(m)

write_single_value(m, address, data) ==
    LET request == for_single_write(address, data)
        m1 == _recv_ack(transport_send(m, request))
        ack == m1.ret
    IN  IF m1.exc # None THEN m1
        ELSE IF ack = "ACK" THEN Return(m1, None)
        ELSE IF ack = "NAK"
             THEN RaiseMsg(m1, "ValueError", "Received NACK upon sending request")
        ELSE RaiseMsg(m1, "ValueError", "Received invalid response to write request")

\* password is <<>> for None and for the empty text
send_password(m, password) ==
    LET _pw == IF password # <<>> THEN password ELSE m.client.password
        data_set == DataSet(None, _pw)
        cmd == CommandMessage("P", "1", <<data_set>>)
    IN  transport_send(m, cmd)

send_break(m) ==
    LET break_msg == CommandMessage("B", "0", <<>>)
    IN  transport_send(m, break_msg)

(***************************************************************************)
(* Dates.  A datetime is a record; datetime(...) raises ValueError for a   *)
(* field out of range, int(...) for text that is empty or has a character  *)
(* that is no digit (the texts used hold digits and letters only).         *)
(***************************************************************************)
Digits == <<"0", "1", "2", "3", "4", "5", "6", "7", "8", "9">>

DigitValue(c) == CHOOSE d \in 0..9 : Digits[d + 1] = c

IsDigit(c) == \E d \in 0..9 : Digits[d + 1] = c

IsNumeric(s) == s # <<>> /\ \A i \in 1..Len(s) : IsDigit(s[i])

RECURSIVE int(_)
int(s) ==
    IF s = <<>> THEN 0
    ELSE 10 * int(SubSeq(s, 1, Len(s) - 1)) + DigitValue(s[Len(s)])

\* s[a:b] of Python, for 0 <= a <= b
Slice(s, a, b) == SubSeq(s, a + 1, IF b < Len(s) THEN b ELSE Len(s))

IsLeap(year) == year % 4 = 0 /\ (year % 100 # 0 \/ year % 400 = 0)

DaysInMonth(year, month) ==
    IF month = 2 THEN (IF IsLeap(year) THEN 29 ELSE 28)
    ELSE IF month \in {4, 6, 9, 11} THEN 30 ELSE 31

datetime(m, year, month, day, hour, minute) ==
    IF m.exc # None THEN m
    ELSE IF /\ year \in 1..9999
            /\ month \in 1..12
            /\ day \in 1..DaysInMonth(year, month)
            /\ hour \in 0..23
            /\ minute \in 0..59
         THEN Return(m, [year |-> year, month |-> month, day |-> day,
                         hour |-> hour, minute |-> minute])
         ELSE Raise(m, "ValueError")

\* assert "text": a non-empty string is true, the statement does nothing
assert_text(m) == m

convert_makel_date(m, date_) ==
    IF m.exc # None THEN m
    ELSE LET m1 == IF Len(date_) # 10 THEN assert_text(m) ELSE m
             year   == <<"2", "0">> \o Slice(date_, 0, 2)
             month  == Slice(date_, 2, 4)
             day    == Slice(date_, 4, 6)
             hour   == Slice(date_, 6, 8)
             minute == Slice(date_, 8, 10)
         IN  IF \E f \in {year, month, day, hour, minute} : ~IsNumeric(f)
             THEN Raise(m1, "ValueError")
             ELSE datetime(m1, int(year), int(month), int(day), int(hour),
                           int(minute))

(***************************************************************************)
(* Profile arranging.                                                      *)
(***************************************************************************)
MSY == <<"M", "S", "Y">>
LUN == <<"L", "U", "N">>

MAKEL_CHUNK == 9
LUNA_CHUNK == 14

\* str.replace(old, ""): every occurrence of old removed, left to right
RECURSIVE Remove(_, _)
Remove(s, old) ==
    IF Len(s) < Len(old) THEN s
    ELSE IF SubSeq(s, 1, Len(old)) = old
         THEN Remove(SubSeq(s, Len(old) + 1, Len(s)), old)
         ELSE <<Head(s)>> \o Remove(Tail(s), old)

\* messages.ProfileData(date_, *values) and ProfileData(date=, f180=)
ProfileDataMakel(date_, values) == [date |-> date_, values |-> values]

ProfileDataLuna(date_, f180) == [date |-> date_, f180 |-> f180]

RECURSIVE MakelLoop(_, _, _, _, _)
MakelLoop(m, data, idx, values, temp_data) ==
    IF m.exc # None THEN m
    ELSE IF data = <<>> THEN Return(m, values)
    ELSE LET flush == idx % MAKEL_CHUNK = 0 /\ idx # 0
             m1 == IF flush THEN convert_makel_date(m, temp_data[1]) ELSE m
         IN  IF m1.exc # None THEN m1
             ELSE MakelLoop(
                    m1, Tail(data), idx + 1,
                    IF flush
                    THEN Append(values, ProfileDataMakel(m1.ret, Tail(temp_data)))
                    ELSE values,
                    Append(IF flush THEN <<>> ELSE temp_data, Head(data).value))

_arrange_profile_data_makel(m, response) ==
    IF m.exc # None THEN m
    ELSE IF ~HasData(response) THEN Raise(m, "AttributeError")
    ELSE MakelLoop(m, Slice(response.data, 1, Len(response.data)), 0, <<>>, <<>>)

RECURSIVE LunaLoop(_, _, _, _, _)
LunaLoop(m, data, idx, values, temp_data) ==
    IF m.exc # None THEN m
    ELSE IF data = <<>> THEN Return(m, values)
    ELSE LET flush == idx % LUNA_CHUNK = 0 /\ idx # 0
             m1 == IF flush
                   THEN convert_makel_date(
                          m, Slice(Remove(temp_data[1], <<"-">>), 2,
                                   Len(temp_data[1]))
                             \o Remove(temp_data[2], <<":">>))
                   ELSE m
         IN  IF m1.exc # None THEN m1
             ELSE LunaLoop(
                    m1, Tail(data), idx + 1,
                    IF flush
                    THEN Append(values,
                                ProfileDataLuna(
                                  m1.ret,
                                  Remove(temp_data[3], <<"*", "k", "W", "h">>)))
                    ELSE values,
                    Append(IF flush THEN <<>> ELSE temp_data, Head(data).value))

_arrange_profile_data_luna(m, response) ==
    IF m.exc # None THEN m
    ELSE IF ~HasData(response) THEN Raise(m, "AttributeError")
    ELSE LunaLoop(m, Slice(response.data, 1, Len(response.data)), 0, <<>>, <<>>)

_arrange_profile_data(m, response) ==
    IF m.exc # None THEN m
    ELSE IF m.client.manufacturer_id = MSY
         THEN _arrange_profile_data_makel(m, response)
    ELSE IF m.client.manufacturer_id = LUN
         THEN _arrange_profile_data_luna(m, response)
    ELSE Return(m, None)

\* f"{n}" and f"{n:02d}" for 0 <= n <= 99
Str(n) == IF n < 10 THEN <<Digits[n + 1]>>
          ELSE <<Digits[(n \div 10) + 1], Digits[(n % 10) + 1]>>

Str02(n) == <<Digits[(n \div 10) + 1], Digits[(n % 10) + 1]>>

FormatDate(d) == Str(d.year % 100) \o Str02(d.month) \o Str02(d.day)

_send_profile_request(m, start_date, end_date) ==
    IF m.exc # None THEN m
    ELSE LET man == m.client.manufacturer_id
             suffix == IF man = LUN THEN <<>> ELSE <<"0", "0", "0", "0">>
             value == FormatDate(start_date) \o suffix \o <<";">>
                          \o FormatDate(end_date) \o suffix
             cmd == CommandMessage(
                      "R",
                      IF man = LUN THEN "5" ELSE "2",
                      <<[address |-> IF man = LUN THEN "P1" ELSE "P.01",
                         value |-> value,
                         end |-> IF man = LUN THEN "" ELSE None]>>)
         IN  IF man # LUN /\ man # MSY THEN Raise(m, "UnboundLocalError")
             ELSE transport_send(m, cmd)

\* if not utils.bcc_valid(response.to_bytes()): assert "Not a valid bcc"
CheckBcc(m) ==
    IF m.exc # None THEN m
    ELSE IF ~bcc_valid(to_bytes(m.ret)) THEN assert_text(m) ELSE m

read_profile(m, start_date, end_date) ==
    LET m1 == read_response(ack_with_option_select(startup(m), "programming"))
        m2 == _send_profile_request(CheckBcc(m1), start_date, end_date)
        m3 == CheckBcc(read_response(m2))
    IN  _arrange_profile_data(m3, m3.ret)

(***************************************************************************)
(* What the meter and the clock can do: the inputs of the session.         *)
(***************************************************************************)
MaxDataSets == 2

Manufacturers == {<<"I", "S", "K">>, <<"I", "S", "k">>, <<"i", "s", "K">>}

WireBaudChars == BaudChars \cup {"7"}

IdentFrame(manufacturer, baud_char) ==
    <<"/">> \o manufacturer \o <<baud_char, "M", "T", "CR", "LF">>

MalformedIdentFrame == <<"/", "I", "CR", "LF">>

\* the identification frames of the session specification
IdentFrames ==
    {IdentFrame(man, "5") : man \in Manufacturers}
        \cup {IdentFrame(<<"I", "S", "K">>, "7"), MalformedIdentFrame}

\* one identification frame per switchover character
BaudIdentFrames == {IdentFrame(<<"I", "S", "K">>, b) : b \in WireBaudChars}

Value(i) == <<"4", "2", <<"0", "1", "2", "3">>[i + 1]>>

AnswerFrame(n, bcc_ok) ==
    [start |-> "STX", head |-> <<>>,
     data |-> [i \in 1..n |-> DataSet("1.8.0", Value(i))], bcc_ok |-> bcc_ok]

ChallengeFrame(bcc_ok) ==
    [start |-> "SOH", head |-> <<"P", "0">>,
     data |-> <<DataSet(None, <<"1", "2">>)>>, bcc_ok |-> bcc_ok]

GarbageFrame ==
    [start |-> "x", head |-> <<>>, data |-> <<>>, bcc_ok |-> FALSE]

DataFrames ==
    {AnswerFrame(n, TRUE) : n \in 0..MaxDataSets}
        \cup {ChallengeFrame(TRUE), GarbageFrame}

AckBytes == {"ACK", "NAK", "x"}

\* elapsed time per pass of the wake loop, as time.time() reports it; the
\* clock is read only by the wake sequence of a battery powered client
WakeSteps == {200, 1100, 2200}

ClockSteps == IF client.battery_powered THEN WakeSteps ELSE {0}

Modes == ALLOWED_MODES \cup {"unknown"}

\* every wire of at most one frame of F
Wires(F) == {<<>>} \cup {<<f>> : f \in F}

HandshakeWires ==
    Wires(IdentFrames) \cup {<<i, f>> : i \in IdentFrames, f \in DataFrames}

BaudWires == Wires(BaudIdentFrames)

(***************************************************************************)
(* Profile answers: a header element, then chunks in the layout of a       *)
(* manufacturer.  Chunk i of the Makel layout starts with the packed date  *)
(* 21-01-05 08:0i, chunk i of the Luna layout with the date 2021-01-0i,    *)
(* the time 08:00 and the energy "i.5*kWh"; every other element is a token *)
(* naming its chunk and its place in it.                                   *)
(***************************************************************************)
MaxChunks == 2
MaxExtra == 1

Token(i, j) == <<"v", Digits[i + 1], Digits[(j \div 10) + 1], Digits[(j % 10) + 1]>>

MakelDate(i, good) ==
    <<"2", "1">> \o (IF good THEN <<"0", "1">> ELSE <<"x", "1">>)
        \o <<"0", "5", "0", "8", "0", Digits[i + 1]>>

LunaDate(i, good) ==
    <<"2", "0", "2", "1", "-">> \o (IF good THEN <<"0", "1">> ELSE <<"x", "1">>)
        \o <<"-", "0", Digits[i + 1]>>

LunaTime == <<"0", "8", ":", "0", "0">>

LunaEnergy(i) == <<Digits[i + 1], ".", "5", "*", "k", "W", "h">>

ChunkSize(layout) == IF layout = LUN THEN LUNA_CHUNK ELSE MAKEL_CHUNK

\* element j (from 0) of chunk i (from 1); good: the dates of chunk 1 are dates
Element(layout, i, j, good) ==
    IF layout = LUN
    THEN CASE j = 0 -> LunaDate(i, good \/ i # 1)
           [] j = 1 -> LunaTime
           [] j = 2 -> LunaEnergy(i)
           [] OTHER -> Token(i, j)
    ELSE IF j = 0 THEN MakelDate(i, good \/ i # 1) ELSE Token(i, j)

ProfileValues(layout, k, extra, good) ==
    [q \in 1..(1 + k * ChunkSize(layout) + extra) |->
        IF q = 1 THEN <<"P", "1">>
        ELSE Element(layout, ((q - 2) \div ChunkSize(layout)) + 1,
                     (q - 2) % ChunkSize(layout), good)]

ProfileFrame(layout, k, extra, good, bcc_ok) ==
    [start |-> "STX", head |-> <<>>,
     data |-> [q \in 1..(1 + k * ChunkSize(layout) + extra) |->
                 DataSet("P.01", ProfileValues(layout, k, extra, good)[q])],
     bcc_ok |-> bcc_ok]

ProfileFrames ==
    {ProfileFrame(layout, k, extra, good, bcc_ok) :
        layout \in {MSY, LUN}, k \in 0..MaxChunks, extra \in 0..MaxExtra,
        good \in BOOLEAN, bcc_ok \in BOOLEAN}

\* the data frames of the profile read: one full chunk, or one more element
ProfileReadFrames ==
    {ProfileFrame(layout, 1, extra, TRUE, bcc_ok) :
        layout \in {MSY, LUN}, extra \in 0..MaxExtra, bcc_ok \in BOOLEAN}

ProfileIdentFrames == {IdentFrame(man, "5") : man \in {MSY, LUN, <<"I", "S", "K">>}}

FirstFrames == {ChallengeFrame(TRUE), AnswerFrame(1, FALSE)}

ProfileWires ==
    {<<i>> : i \in ProfileIdentFrames}
        \cup {<<i, f>> : i \in ProfileIdentFrames, f \in FirstFrames}
        \cup {<<i, f, g>> : i \in ProfileIdentFrames, f \in FirstFrames,
                            g \in ProfileReadFrames}

Date(year, month, day) == [year |-> year, month |-> month, day |-> day]

ProfileStartDates == {Date(2021, 1, 5)}

ProfileEndDate == Date(2021, 1, 6)

\* the decoded messages handed to the Profile Arranger
ArrangeInputs ==
    {[kind |-> "AnswerDataMessage", data |-> f.data, bcc_ok |-> f.bcc_ok] :
        f \in {g \in ProfileFrames : g.bcc_ok}}

\* the texts handed to convert_makel_date
DateFields ==
    [mm : {<<"0", "1">>, <<"0", "2">>, <<"1", "3">>, <<"0", "x">>},
     dd : {<<"0", "5">>, <<"2", "9">>, <<"3", "1">>},
     hh : {<<"0", "8">>, <<"2", "4">>},
     mi : {<<"0", "0">>, <<"6", "0">>, <<"0">>, <<>>, <<"0", "0", "0", "0">>,
           <<"0", "x">>}]

DateStrings ==
    {yy \o f.mm \o f.dd \o f.hh \o f.mi :
        yy \in {<<"2", "1">>, <<"2", "4">>}, f \in DateFields}

(***************************************************************************)
(* The state after construction, and one action per public method.         *)
(***************************************************************************)
NoCall == [op |-> None, arg |-> None, exc |-> None, msg |-> None, ret |-> None]

\* the calls the bridge serves at a time
MaxCalls == 2

Calls == 1..MaxCalls

\* MyClass._lock as created at line 14, and no call under way
IdleBridge ==
    [lock |-> FALSE,
     pc |-> [t \in Calls |-> "idle"],
     op |-> [t \in Calls |-> None]]

\* a client exists, no identification parsed yet, session not ended
NewLife == [constructed |-> TRUE, identified |-> FALSE, ended |-> FALSE]

\* A client constructed with the defaults on a transport that needs no
\* address and has been connected.
InitSession ==
    /\ client \in {Object(<<>>, DefaultPassword, b) : b \in BOOLEAN}
    /\ transport = Transport(FALSE, TRUE, TRUE)
    /\ trace = <<>>
    /\ outcome = NoCall
    /\ life = NewLife
    /\ bridge = IdleBridge

Init == InitSession /\ input = None

\* read_identification has parsed an identification frame during the call
ParsedIdentification(tr) ==
    \E i \in 1..Len(tr) :
        /\ tr[i].ev = "simple_read"
        /\ tr[i].ok
        /\ IdentificationWellFormed(tr[i].arg)

\* what a call leaves behind in the client, the transport and the call log
SessionStep(op, arg, m) ==
    /\ client' = m.client
    /\ transport' = m.transport
    /\ trace' = m.trace
    /\ outcome' = [op |-> op, arg |-> arg, exc |-> m.exc, msg |-> m.msg,
                   ret |-> IF m.exc = None THEN m.ret ELSE None]
    /\ UNCHANGED input

Finish(op, arg, m) ==
    /\ life.constructed
    /\ SessionStep(op, arg, m)
    /\ life' = [life EXCEPT !.identified = @ \/ ParsedIdentification(m.trace)]
    /\ UNCHANGED bridge

StartupOn(wires) ==
    \E step \in ClockSteps, w \in wires :
        Finish("startup", None, startup(Machine(w, step)))

Startup == StartupOn(Wires(IdentFrames))

StartupAnyBaud == StartupOn(BaudWires)

AckWithOptionSelect ==
    \E mode \in Modes :
        Finish("ack_with_option_select", mode,
               ack_with_option_select(Machine(<<>>, 0), mode))

ReadResponse ==
    \E w \in Wires(DataFrames) :
        Finish("read_response", None, read_response(Machine(w, 0)))

StandardReadout ==
    \E step \in ClockSteps, w \in HandshakeWires :
        Finish("standard_readout", None, standard_readout(Machine(w, step)))

AccessProgrammingMode ==
    \E step \in ClockSteps, w \in HandshakeWires :
        Finish("access_programming_mode", None,
               access_programming_mode(Machine(w, step)))

SwitchoverBaudrate ==
    Finish("switchover_baudrate", None, switchover_baudrate(Machine(<<>>, 0)))

ReadSingleValue ==
    \E w \in Wires(DataFrames) :
        Finish("read_single_value", "1.8.0",
               read_single_value(Machine(w, 0), "1.8.0", <<"1">>))

WriteSingleValue ==
    \E w \in Wires(AckBytes) :
        Finish("write_single_value", "1.8.0",
               write_single_value(Machine(w, 0), "1.8.0", <<"4", "2">>))

Next ==
    \/ Startup
    \/ AckWithOptionSelect
    \/ ReadResponse
    \/ StandardReadout
    \/ AccessProgrammingMode
    \/ SwitchoverBaudrate
    \/ ReadSingleValue
    \/ WriteSingleValue

Spec == Init /\ [][Next]_vars

\* The baud rate negotiation alone, over every switchover character.
NextBaud ==
    \/ StartupAnyBaud
    \/ AckWithOptionSelect
    \/ SwitchoverBaudrate

SpecBaud == Init /\ [][NextBaud]_vars

(***************************************************************************)
(* The profile read.                                                       *)
(***************************************************************************)
ReadProfile ==
    \E step \in ClockSteps, w \in ProfileWires, start_date \in ProfileStartDates :
        Finish("read_profile", start_date,
               read_profile(Machine(w, step), start_date, ProfileEndDate))

NextProfile == ReadProfile

SpecProfile == Init /\ [][NextProfile]_vars

(***************************************************************************)
(* The Profile Arranger alone: a client that has identified its meter is   *)
(* handed a decoded answer.                                                *)
(***************************************************************************)
InitArrange ==
    /\ client \in
         {[Object(<<>>, DefaultPassword, FALSE) EXCEPT
             !.identification = <<"M", "T">>,
             !.switchover_baudrate_char = "5",
             !.manufacturer_id = man] :
          man \in {MSY, LUN, <<"I", "S", "K">>}}
    /\ transport = [Transport(FALSE, TRUE, TRUE) EXCEPT !.baudrate = 9600]
    /\ trace = <<>>
    /\ outcome = NoCall
    /\ life = [NewLife EXCEPT !.identified = TRUE]
    /\ bridge = IdleBridge
    /\ input \in ArrangeInputs

ArrangeProfileData ==
    Finish("_arrange_profile_data", None,
           _arrange_profile_data(Machine(<<>>, 0), input))

NextArrange == ArrangeProfileData

SpecArrange == InitArrange /\ [][NextArrange]_vars

(***************************************************************************)
(* Date decoding alone.                                                    *)
(***************************************************************************)
InitDate ==
    /\ InitSession
    /\ ~client.battery_powered
    /\ input \in DateStrings

ConvertMakelDate ==
    Finish("convert_makel_date", None,
           convert_makel_date(Machine(<<>>, 0), input))

NextDate == ConvertMakelDate

SpecDate == InitDate /\ [][NextDate]_vars

(***************************************************************************)
(* The life of a client: constructed on a transport of any kind, connected,*)
(* used, ended with the break command and a disconnect, constructed anew.  *)
(***************************************************************************)
TransportKinds ==
    {Transport(requires_address, raises_when_closed, FALSE) :
        requires_address \in BOOLEAN, raises_when_closed \in BOOLEAN}

DeviceAddresses == {<<>>, <<"1">>}

Passwords == {<<>>, <<"1", "2">>}

\* the machine a constructor runs on: no object yet
Blank ==
    [client |-> None, transport |-> None, wire |-> <<>>, clockStep |-> 0,
     link |-> TRUE, trace |-> <<>>, exc |-> None, msg |-> None, ret |-> None]

Constructed(transport_, device_address) ==
    __init__(Blank, transport_, device_address, DefaultPassword, FALSE)

CallOf(op, arg, m) ==
    [op |-> op, arg |-> arg, exc |-> m.exc, msg |-> m.msg, ret |-> None]

\* the state after the constructor has run, whether it returned or raised
InitLifecycle ==
    /\ \E transport_ \in TransportKinds, device_address \in DeviceAddresses :
          LET m == Constructed(transport_, device_address)
          IN  /\ client = m.client
              /\ transport = m.transport
              /\ trace = m.trace
              /\ outcome = CallOf("__init__", device_address, m)
              /\ life = [NewLife EXCEPT !.constructed = (m.exc = None)]
    /\ input = None
    /\ bridge = IdleBridge

\* a new client on the same transport; when the constructor raises, the
\* caller is left with what it had
Construct ==
    \E device_address \in DeviceAddresses :
        LET m == Constructed(transport, device_address)
        IN  /\ IF m.exc = None
               THEN /\ client' = m.client
                    /\ life' = NewLife
               ELSE UNCHANGED <<client, life>>
            /\ transport' = m.transport
            /\ trace' = m.trace
            /\ outcome' = CallOf("__init__", device_address, m)
            /\ UNCHANGED <<input, bridge>>

Connect ==
    \E link \in BOOLEAN :
        Finish("connect", None, connect(LinkMachine(link)))

\* the session has been ended once a disconnect follows the break command
Disconnect ==
    LET m == disconnect(Machine(<<>>, 0))
    IN  /\ life.constructed
        /\ SessionStep("disconnect", None, m)
        /\ life' = [life EXCEPT
                      !.ended = @ \/ (/\ outcome.op = "send_break"
                                      /\ outcome.exc = None
                                      /\ m.exc = None)]
        /\ UNCHANGED bridge

SendPassword ==
    \E password \in Passwords :
        Finish("send_password", None, send_password(Machine(<<>>, 0), password))

SendBreak == Finish("send_break", None, send_break(Machine(<<>>, 0)))

NextLifecycle ==
    \/ Construct
    \/ Connect
    \/ Disconnect
    \/ SendPassword
    \/ SendBreak
    \/ Startup
    \/ AckWithOptionSelect
    \/ ReadResponse
    \/ ReadSingleValue
    \/ WriteSingleValue

SpecLifecycle == InitLifecycle /\ [][NextLifecycle]_vars

(***************************************************************************)
(* The bridge (src/examples/main.py).  Every call of get_profile or        *)
(* get_standard_data is a process: it waits for the class-wide lock in     *)
(* connect_serial, constructs a client on the serial port and connects it, *)
(* runs the session operation and releases the lock.  An exception leaves  *)
(* the call where it was raised.  The calls are interleaved at every one   *)
(* of these steps, which covers every scheduling of the calls.             *)
(***************************************************************************)
BridgeOperations == {"get_profile", "get_standard_data"}

\* Iec6205621Client.with_serial_transport(port): a serial transport needs no
\* device address
with_serial_transport(m) ==
    __init__(m, Transport(FALSE, TRUE, FALSE), <<>>, DefaultPassword, FALSE)

\* await self._lock.acquire() going on without the lock being free
lock_free_unchecked(b) == TRUE

\* await self._lock.acquire() returns once the lock is free
lock_free(b) == ~b.lock

\* the rest of connect_serial, run by the call that took the lock
connect_serial(m) == connect(with_serial_transport(m))

\* what the meter answers to the calls of the bridge
BridgeProfileWires ==
    {<<>>,
     <<IdentFrame(MSY, "5"), ChallengeFrame(TRUE),
       ProfileFrame(MSY, 1, 1, TRUE, TRUE)>>}

BridgeReadoutWires ==
    {<<>>, <<IdentFrame(<<"I", "S", "K">>, "5"), AnswerFrame(1, TRUE)>>}

InitBridge ==
    /\ client = None
    /\ transport = None
    /\ trace = <<>>
    /\ outcome = NoCall
    /\ input = None
    /\ life = [NewLife EXCEPT !.constructed = FALSE]
    /\ bridge = IdleBridge

\* a call arrives and reaches the await in connect_serial
Call(t) ==
    /\ bridge.pc[t] = "idle"
    /\ \E op \in BridgeOperations :
          bridge' = [bridge EXCEPT !.pc[t] = "waiting", !.op[t] = op]
    /\ UNCHANGED <<client, transport, trace, outcome, input, life>>

Acquire(t) ==
    /\ bridge.pc[t] = "waiting"
    /\ lock_free(bridge)
    /\ bridge' = [bridge EXCEPT !.pc[t] = "acquired", !.lock = TRUE]
    /\ UNCHANGED <<client, transport, trace, outcome, input, life>>

ConnectSerial(t) ==
    /\ bridge.pc[t] = "acquired"
    /\ \E link \in BOOLEAN :
          LET m == connect_serial([Blank EXCEPT !.link = link])
          IN  /\ SessionStep("connect_serial", None, m)
              /\ bridge' = [bridge EXCEPT
                            !.pc[t] = IF m.exc = None THEN "connected" ELSE "failed"]
    /\ life' = NewLife

RunOperation(t) ==
    /\ bridge.pc[t] = "connected"
    /\ \E m \in
          IF bridge.op[t] = "get_profile"
          THEN {read_profile(Machine(w, 0), Date(2021, 1, 5), ProfileEndDate) :
                   w \in BridgeProfileWires}
          ELSE {standard_readout(Machine(w, 0)) : w \in BridgeReadoutWires} :
          /\ SessionStep(bridge.op[t], None, m)
          /\ life' = [life EXCEPT
                        !.identified = @ \/ ParsedIdentification(m.trace)]
          /\ bridge' = [bridge EXCEPT
                            !.pc[t] = IF m.exc = None THEN "ran" ELSE "failed"]

\* self._lock.release(), and the result handed back
Release(t) ==
    /\ bridge.pc[t] = "ran"
    /\ bridge' = [bridge EXCEPT !.pc[t] = "done", !.lock = FALSE]
    /\ UNCHANGED <<client, transport, trace, outcome, input, life>>

\* the call has returned or raised; its caller may call again
CallEnds(t) ==
    /\ bridge.pc[t] \in {"done", "failed"}
    /\ bridge' = [bridge EXCEPT !.pc[t] = "idle"]
    /\ UNCHANGED <<client, transport, trace, outcome, input, life>>

NextBridge ==
    \E t \in Calls :
        \/ Call(t)
        \/ Acquire(t)
        \/ ConnectSerial(t)
        \/ RunOperation(t)
        \/ Release(t)
        \/ CallEnds(t)

SpecBridge == InitBridge /\ [][NextBridge]_vars

(***************************************************************************)
(* Properties.                                                             *)
(***************************************************************************)
IsSend(e, kind) == e.ev = "send" /\ e.arg.kind = kind

IsTransportCall(e) ==
    e.ev \in {"send", "simple_read", "read", "recv", "switch_baudrate"}

Label(e) == IF e.ev = "send" THEN e.arg.kind ELSE e.ev

TransportLabels ==
    LET calls == SelectSeq(trace, IsTransportCall)
    IN  [i \in 1..Len(calls) |-> Label(calls[i])]

IsPrefix(a, b) == Len(a) <= Len(b) /\ a = SubSeq(b, 1, Len(a))

LeadingNulls(ls) ==
    CHOOSE k \in 0..Len(ls) :
        /\ \A i \in 1..k : ls[i] = "bytes"
        /\ k = Len(ls) \/ ls[k + 1] # "bytes"

HandshakeOrder ==
    <<"RequestMessage", "simple_read", "AckOptionSelectMessage",
      "switch_baudrate", "read">>

\* C1: the transport sees a standard readout as the wake train of null bytes
\* (exactly when the client is battery powered), then the request, the read of
\* the identification, the option-select acknowledgement, the baud rate switch
\* and the read of the answer, in this order; a readout that fails stops
\* somewhere along this order.
C1_ReadoutOrder ==
    outcome.op = "standard_readout" =>
        LET ls == TransportLabels
            k  == LeadingNulls(ls)
            handshake == SubSeq(ls, k + 1, Len(ls))
        IN  /\ (k >= 1) <=> client.battery_powered
            /\ IsPrefix(handshake, HandshakeOrder)
            /\ outcome.exc = None => handshake = HandshakeOrder

C1_Witness ==
    /\ outcome.op = "standard_readout"
    /\ outcome.exc = None
    /\ client.battery_powered
    /\ Len(TransportLabels) > Len(HandshakeOrder)

\* C2: a wait follows the send of the request and comes before the read of the
\* identification; a wait follows the send of the option-select
\* acknowledgement and comes before the baud rate switch and before any later
\* read.
C2_RestAfterSends ==
    \A i \in 1..Len(trace) :
        /\ (IsSend(trace[i], "RequestMessage")
              \/ IsSend(trace[i], "AckOptionSelectMessage"))
             => i < Len(trace) /\ trace[i + 1].ev = "rest" /\ trace[i + 1].arg > 0
        /\ trace[i].ev = "simple_read"
             => /\ i > 2
                /\ trace[i - 1].ev = "rest"
                /\ IsSend(trace[i - 2], "RequestMessage")
        /\ trace[i].ev = "switch_baudrate"
             => /\ i > 2
                /\ trace[i - 1].ev = "rest"
                /\ IsSend(trace[i - 2], "AckOptionSelectMessage")
        /\ trace[i].ev = "read"
             => \A j \in 1..(i - 1) :
                    IsSend(trace[j], "AckOptionSelectMessage")
                        => \E r \in (j + 1)..(i - 1) : trace[r].ev = "rest"

C2_Witness ==
    /\ outcome.op = "access_programming_mode"
    /\ outcome.exc = None
    /\ \E i \in 1..Len(trace) : trace[i].ev = "switch_baudrate"
    /\ \E i \in 1..Len(trace) : trace[i].ev = "read"

\* C3: after a successful startup the reaction time is the short one exactly
\* when the last character of the manufacturer code this startup parsed is
\* lowercase, and the normal one otherwise.
C3_ReactionTimeFollowsLastChar ==
    (outcome.op = "startup" /\ outcome.exc = None) =>
        reaction_time(client) =
            (IF client.manufacturer_id[3] \in LowerChars THEN 20 ELSE 200)

ExpectedBaud(c) ==
    CASE c = "0" -> 300   [] c = "1" -> 600  [] c = "2" -> 1200
      [] c = "3" -> 2400  [] c = "4" -> 4800 [] c = "5" -> 9600
      [] c = "6" -> 19200

\* C4: for a switchover character "0".."6" the switchover_baudrate property and
\* the baud rate handed to switch_baudrate are 300, 600, 1200, 2400, 4800,
\* 9600, 19200; for any other character both lookups end in a lookup error.
C4_BaudLookup ==
    LET c == client.switchover_baudrate_char
        known == c \in {"0", "1", "2", "3", "4", "5", "6"}
    IN  c # None =>
          /\ outcome.op = "switchover_baudrate" =>
                IF known
                THEN outcome.exc = None /\ outcome.ret = ExpectedBaud(c)
                ELSE outcome.exc = "KeyError"
          /\ (outcome.op = "ack_with_option_select"
                /\ outcome.arg \in ALLOWED_MODES) =>
                IF known
                THEN /\ outcome.exc = None
                     /\ trace[Len(trace)] =
                            Event("switch_baudrate", ExpectedBaud(c), TRUE)
                     /\ transport.baudrate = ExpectedBaud(c)
                ELSE /\ outcome.exc = "KeyError"
                     /\ \A i \in 1..Len(trace) : trace[i].ev # "switch_baudrate"

\* C5: in read_profile a frame whose block check character does not validate
\* is never consumed: the operation fails and nothing is sent after the
\* invalid frame, so its data sets are neither arranged nor returned.
C5_InvalidFrameNotConsumed ==
    outcome.op = "read_profile" =>
        \A i \in 1..Len(trace) :
            (trace[i].ev = "read" /\ trace[i].ok /\ ~trace[i].arg.bcc_ok) =>
                /\ outcome.exc # None
                /\ \A j \in (i + 1)..Len(trace) : trace[j].ev # "send"

\* C6: a profile answer of one header element and k >= 1 full chunks in the
\* layout of the client's manufacturer is arranged into exactly k records,
\* the i-th built from the i-th chunk.
C6_OneRecordPerFullChunk ==
    outcome.op = "_arrange_profile_data" =>
        \A k \in 1..MaxChunks :
            /\ (client.manufacturer_id = MSY
                  /\ input.data = ProfileFrame(MSY, k, 0, TRUE, TRUE).data) =>
                  /\ outcome.exc = None
                  /\ Len(outcome.ret) = k
                  /\ \A i \in 1..k :
                        /\ outcome.ret[i].date =
                             [year |-> 2021, month |-> 1, day |-> 5,
                              hour |-> 8, minute |-> i]
                        /\ outcome.ret[i].values = [j \in 1..8 |-> Token(i, j)]
            /\ (client.manufacturer_id = LUN
                  /\ input.data = ProfileFrame(LUN, k, 0, TRUE, TRUE).data) =>
                  /\ outcome.exc = None
                  /\ Len(outcome.ret) = k
                  /\ \A i \in 1..k :
                        /\ outcome.ret[i].date =
                             [year |-> 2021, month |-> 1, day |-> i,
                              hour |-> 8, minute |-> 0]
                        /\ outcome.ret[i].f180 = <<Digits[i + 1], ".", "5">>

IsSendEvent(e) == e.ev = "send"

\* C7: read_single_value sends exactly one read request; a decoded answer of
\* no data set ends in NoDataReturned, one of two or more in
\* TooManyValuesReturned, and one of exactly one data set returns that data
\* set itself.
C7_SingleValueRead ==
    outcome.op = "read_single_value" =>
        /\ Len(SelectSeq(trace, IsSendEvent)) = 1
        /\ trace[1] = Event("send", for_single_read(outcome.arg, <<"1">>), TRUE)
        /\ \A i \in 1..Len(trace) :
              (trace[i].ev = "read" /\ trace[i].ok
                  /\ trace[i].arg.start = "STX") =>
                  LET data == trace[i].arg.data
                  IN  /\ Len(data) = 0 => outcome.exc = "NoDataReturned"
                      /\ Len(data) >= 2 => outcome.exc = "TooManyValuesReturned"
                      /\ Len(data) = 1 =>
                            outcome.exc = None /\ outcome.ret = data[1]

C7_Witness ==
    /\ outcome.op = "read_single_value"
    /\ outcome.exc = None
    /\ outcome.ret = DataSet("1.8.0", Value(1))

\* the exception write_single_value ends in for a byte that is neither the
\* acknowledgement nor the negative acknowledgement
UnexpectedResponseExc ==
    write_single_value(Machine(<<"x">>, 0), "1.8.0", <<"4", "2">>).exc

\* C8: write_single_value sends one request and reads one byte; the
\* acknowledgement gives success with no return value, and the negative
\* acknowledgement an error of another kind than the error for any other byte.
C8_WriteOutcomes ==
    outcome.op = "write_single_value" =>
        /\ Len(SelectSeq(trace, IsSendEvent)) = 1
        /\ \A i \in 1..Len(trace) :
              (trace[i].ev = "recv" /\ trace[i].ok) =>
                  /\ trace[i].arg = "ACK" =>
                        outcome.exc = None /\ outcome.ret = None
                  /\ trace[i].arg = "NAK" =>
                        outcome.exc # None /\ outcome.exc # UnexpectedResponseExc
                  /\ trace[i].arg \notin {"ACK", "NAK"} => outcome.exc # None

\* C9: convert_makel_date returns a timestamp only for a text of exactly ten
\* digits YYMMDDhhmm, the timestamp with year 2000 + YY; every other text ends
\* in an error.
C9_DateDecode ==
    outcome.op = "convert_makel_date" =>
        IF Len(input) = 10 /\ IsNumeric(input)
        THEN outcome.exc = None =>
                outcome.ret =
                    [year   |-> 2000 + int(SubSeq(input, 1, 2)),
                     month  |-> int(SubSeq(input, 3, 4)),
                     day    |-> int(SubSeq(input, 5, 6)),
                     hour   |-> int(SubSeq(input, 7, 8)),
                     minute |-> int(SubSeq(input, 9, 10))]
        ELSE outcome.exc # None

\* C10: read_response decodes a payload as a CommandMessage exactly when its
\* first byte is SOH and as an AnswerDataMessage otherwise; every decoded
\* AnswerDataMessage is handed to check_for_errors exactly once before it is
\* returned, and a password challenge never is.
C10_ReadResponseDispatch ==
    /\ \A i \in 1..Len(trace) :
          /\ (trace[i].ev = "read" /\ trace[i].ok) =>
                /\ i < Len(trace)
                /\ trace[i + 1] =
                     Event("decode",
                           IF trace[i].arg.start = "SOH"
                           THEN "CommandMessage" ELSE "AnswerDataMessage",
                           TRUE)
                /\ IF trace[i].arg.start = "STX"
                   THEN /\ i + 1 < Len(trace)
                        /\ trace[i + 2].ev = "check_for_errors"
                        /\ trace[i + 2].arg.kind = "AnswerDataMessage"
                        /\ trace[i + 2].arg.data = trace[i].arg.data
                   ELSE i + 1 = Len(trace) \/ trace[i + 2].ev # "check_for_errors"
          /\ trace[i].ev = "check_for_errors" =>
                /\ i > 2
                /\ trace[i - 1].ev = "decode"
                /\ trace[i - 2].ev = "read"
    /\ (outcome.op = "read_response" /\ outcome.exc = None) =>
          /\ outcome.ret.kind = "CommandMessage" <=> trace[1].arg.start = "SOH"
          /\ outcome.ret.kind = "AnswerDataMessage" =>
                trace[Len(trace)] = Event("check_for_errors", outcome.ret, TRUE)

C10_Witness ==
    /\ outcome.op = "read_response"
    /\ outcome.exc = None
    /\ outcome.ret.kind = "AnswerDataMessage"
    /\ Len(outcome.ret.data) = 1

\* C11: the switchover character is unset in every state in which no
\* identification message has been parsed yet, and an option-select
\* acknowledgement attempted in such a state ends in an error without the baud
\* rate switch that completes the option-select step.
C11_UnsetBeforeIdentification ==
    ~life.identified =>
        /\ client.switchover_baudrate_char = None
        /\ outcome.op = "ack_with_option_select" =>
              /\ outcome.exc # None
              /\ \A i \in 1..Len(trace) : trace[i].ev # "switch_baudrate"
              /\ transport.baudrate = BAUDRATES_MODE_C["0"]

C11_Witness ==
    /\ ~life.identified
    /\ outcome.op = "ack_with_option_select"
    /\ outcome.arg \in ALLOWED_MODES
    /\ outcome.exc = "KeyError"

\* the mode character the protocol assigns to a mode name
ModeCharOf(mode) ==
    CASE mode = "readout" -> "0"
      [] mode = "programming" -> "1"
      [] mode = "binary" -> "2"
      [] mode = "manufacturer6" -> "6"
      [] mode = "manufacturer7" -> "7"
      [] mode = "manufacturer8" -> "8"
      [] mode = "manufacturer9" -> "9"
      [] OTHER -> None

\* C12: ack_with_option_select with a mode outside the seven mode names ends in
\* an error with no transport send, no wait and no baud rate switch made, and
\* leaves the client and the transport as they were; with one of the seven
\* names the acknowledgement it sends carries the mode character 0, 1, 2, 6,
\* 7, 8, 9 of that name.
C12_ModeCheckedFirst ==
    [][outcome'.op = "ack_with_option_select" =>
         IF ModeCharOf(outcome'.arg) = None
         THEN /\ outcome'.exc # None
              /\ trace' = <<>>
              /\ client' = client
              /\ transport' = transport
         ELSE /\ \E i \in 1..Len(trace') :
                    IsSend(trace'[i], "AckOptionSelectMessage")
              /\ \A i \in 1..Len(trace') :
                    IsSend(trace'[i], "AckOptionSelectMessage") =>
                        trace'[i].arg.mode_char = ModeCharOf(outcome'.arg)]_vars

C12_Witness ==
    /\ outcome.op = "ack_with_option_select"
    /\ outcome.arg = "unknown"
    /\ outcome.exc = "KeyError"
    /\ trace = <<>>

\* C13: constructing a client with an empty device address on a transport
\* that requires an address ends in the client's configuration error with no
\* call made on the transport; with an address, or on a transport that
\* requires none, construction succeeds.
C13_AddressRequiredAtConstruction ==
    outcome.op = "__init__" =>
        IF transport.TRANSPORT_REQUIRES_ADDRESS /\ outcome.arg = <<>>
        THEN /\ outcome.exc = "Iec6205621ClientError"
             /\ trace = <<>>
        ELSE /\ outcome.exc = None
             /\ life.constructed
             /\ client.device_address = outcome.arg

C13_Witness ==
    /\ outcome.op = "__init__"
    /\ outcome.arg = <<>>
    /\ outcome.exc = "Iec6205621ClientError"
    /\ ~transport.connected

\* the identification fields of a client, as comparable text
IdentificationFields(c) ==
    <<ToString(c.identification), ToString(c.manufacturer_id),
      c.switchover_baudrate_char, c.use_short_reaction_time>>

OtherOperations ==
    {"ack_with_option_select", "read_single_value", "write_single_value",
     "send_password", "send_break", "read_response", "connect", "disconnect"}

\* C14: ack_with_option_select, read_single_value, write_single_value,
\* send_password, send_break, read_response, connect and disconnect leave
\* identification, manufacturer_id, _switchover_baudrate_char and
\* use_short_reaction_time as they were, whether they return or raise.
C14_IdentificationFieldsFrame ==
    [][outcome'.op \in OtherOperations =>
         IdentificationFields(client') = IdentificationFields(client)]_vars

C14_Witness ==
    /\ outcome.op = "disconnect"
    /\ life.identified
    /\ client.switchover_baudrate_char = "5"
    /\ client.use_short_reaction_time

\* a transport send or read that went through
IsPerformedIO(e) ==
    e.ev \in {"send", "simple_read", "read", "recv"} /\ e.ok

\* C18: once the session has been ended by send_break followed by disconnect,
\* no later operation on the client performs a transport send or read.
C18_NoOperationAfterEnd ==
    (/\ life.ended
     /\ outcome.op \in {"startup", "ack_with_option_select",
                         "read_single_value", "write_single_value",
                         "send_password", "standard_readout", "read_profile"})
        => \A i \in 1..Len(trace) : ~IsPerformedIO(trace[i])

IsNull(e) == e.ev = "send" /\ e.arg.kind = "bytes"

IsRest(e, duration) == e.ev = "rest" /\ e.arg = duration

IsTime(e) == e.ev = "time"

\* the place in the call log of the end of the wake sequence: the clock
\* reading that reached the limit
WakeEnd == CHOOSE i \in 1..Len(trace) : IsTime(trace[i]) /\ trace[i].arg >= 2200

\* C16: a startup of a client that is not battery powered sends no null byte
\* and its first send is the RequestMessage; a startup of a battery powered
\* client sends null bytes, each followed by a wait of 0.2 s and a look at the
\* clock, until the clock shows 2.2 s or more, then waits 1.5 s, and only then
\* sends the RequestMessage.
C16_WakeOnlyWhenBatteryPowered ==
    outcome.op \in {"startup", "standard_readout", "access_programming_mode"} =>
        IF ~client.battery_powered
        THEN /\ \A i \in 1..Len(trace) : ~IsNull(trace[i]) /\ ~IsTime(trace[i])
             /\ IsSend(trace[1], "RequestMessage")
        ELSE /\ \E i \in 1..Len(trace) : IsTime(trace[i]) /\ trace[i].arg >= 2200
             /\ IsTime(trace[1]) /\ trace[1].arg = 0
             /\ WakeEnd % 3 = 1 /\ WakeEnd >= 4
             /\ \A i \in 2..WakeEnd :
                    CASE i % 3 = 2 -> IsNull(trace[i])
                      [] i % 3 = 0 -> IsRest(trace[i], 200)
                      [] OTHER -> /\ IsTime(trace[i])
                                  /\ i < WakeEnd => trace[i].arg < 2200
             /\ Len(trace) >= WakeEnd + 2
             /\ IsRest(trace[WakeEnd + 1], 1500)
             /\ IsSend(trace[WakeEnd + 2], "RequestMessage")
             /\ \A i \in (WakeEnd + 1)..Len(trace) : ~IsNull(trace[i])

C16_Witness ==
    /\ outcome.op = "startup"
    /\ outcome.exc = None
    /\ client.battery_powered
    /\ Cardinality({i \in 1..Len(trace) : IsNull(trace[i])}) > 1

\* C20: when ack_with_option_select, called with a valid mode, ends in an
\* error because the switchover character is unset or none of "0".."6", no
\* AckOptionSelectMessage has been sent, no wait taken and no baud rate switch
\* made.
C20_BaudCheckedBeforeWire ==
    (/\ outcome.op = "ack_with_option_select"
     /\ outcome.arg \in ALLOWED_MODES
     /\ outcome.exc # None
     /\ client.switchover_baudrate_char \notin {"0", "1", "2", "3", "4", "5", "6"})
        => \A i \in 1..Len(trace) :
               trace[i].ev \notin {"send", "rest", "switch_baudrate"}

\* the calls that have acquired the lock and not yet released it or ended
InSession ==
    {t \in Calls : bridge.pc[t] \in {"acquired", "connected", "ran"}}

\* C17: under every interleaving of get_profile and get_standard_data calls
\* at most one call is between acquiring the lock in connect_serial and
\* releasing it, and that call holds the lock.
C17_OneSessionAtATime ==
    /\ Cardinality(InSession) <= 1
    /\ InSession # {} => bridge.lock

C17_Witness ==
    \E t \in Calls, u \in Calls :
        /\ t # u
        /\ bridge.pc[t] = "connected"
        /\ bridge.pc[u] = "waiting"
        /\ bridge.op[t] # bridge.op[u]

\* C19: a call that acquired the lock releases it when it ends, also when it
\* ends in an error: the lock is never held while no call is in progress
\* between acquiring and releasing it.
C19_LockReleasedWhenCallEnds ==
    bridge.lock => InSession # {}

====
